---- MODULE Spec2Model ----
(***************************************************************************)
(* ProtoTranslationTable::Create (src/ftrace_reader/                       *)
(* proto_translation_table.cc) and the shared-memory fuzzer                *)
(* (test/end_to_end_shared_memory_fuzzer.cc) as state machines.            *)
(*                                                                         *)
(* Spec      : one run of Create over a catalog and a set of kernel        *)
(*             formats, followed by the ProtoTranslationTable constructor. *)
(* FuzzSpec  : one run of FuzzSharedMemory (service, producer and consumer *)
(*             threads) over a payload, with weak fairness on each thread. *)
(***************************************************************************)
EXTENDS Integers, Sequences, FiniteSets, TLC

VARIABLES
  catalog,             \* the `events` argument of Create, as passed in
  procfs,              \* what FtraceProcfs::ReadEventFormat returns per (group, name)
  events,              \* the local vector `events`, mutated in place
  idx,                 \* position of the range-for over `events` (1-based)
  common_fields,       \* local `common_fields`, later the table's common_fields_
  common_fields_end,   \* local uint16_t `common_fields_end`
  events_,             \* ProtoTranslationTable::events_ (dense array, 0-based)
  largest_id_,         \* ProtoTranslationTable::largest_id_
  name_to_event_,      \* ProtoTranslationTable::name_to_event_ (name -> slot of events_)
  pc,                  \* position inside Create
  data,                \* fuzzer input bytes (a sequence of wire fields)
  main_pc,             \* position of FuzzSharedMemory on the main thread
  prod_pc,             \* position of FakeProducer inside its callbacks
  consumer_enabled,    \* the consumer is connected and tracing is enabled
  shm,                 \* packets finalized in the shared memory buffer, in write order
  open_packets,        \* number of packets opened with NewTracePacket
  read_upto,           \* number of packets of shm the service has sent to the consumer
  inflight,            \* batches sent by the service, not yet handled by the consumer
  decoded,             \* test() of every packet the consumer callback decoded
  checkpoint,          \* the "no.more.packets" checkpoint has been signalled
  ret                  \* return value of FuzzSharedMemory (-1 while running)

tvars == <<catalog, procfs, events, idx, common_fields, common_fields_end,
           events_, largest_id_, name_to_event_, pc>>
fvars == <<data, main_pc, prod_pc, consumer_enabled, shm, open_packets,
           read_upto, inflight, decoded, checkpoint, ret>>
vars == <<tvars, fvars>>

---------------------------------------------------------------------------
\* Bounds of the model.

MaxEvents == 2
MaxPayload == 2

\* uint16_t holds values modulo 2^16.
UINT16 == 65536

SeqsUpTo(S, n) == UNION {[1..k -> S] : k \in 0..n}

---------------------------------------------------------------------------
\* Data: Field and Event of event_info.h, FtraceEvent of format_parser.h.

DefaultField ==
  [ftrace_offset |-> 0, ftrace_size |-> 0, ftrace_type |-> "kFtraceUnset",
   ftrace_name |-> "", proto_field_id |-> 0, proto_field_type |-> "kProtoUnset",
   strategy |-> "kUnset"]

DefaultEvent ==
  [name |-> "", group |-> "", fields |-> <<>>, ftrace_event_id |-> 0,
   proto_field_id |-> 0, size |-> 0]

\* A declared field of the catalog: the preconditions of lines 78-82 hold.
DeclField(name, id, ptype, ftype) ==
  [DefaultField EXCEPT !.ftrace_name = name, !.proto_field_id = id,
                       !.proto_field_type = ptype, !.ftrace_type = ftype]

\* A kernel field: type_and_name is the C declaration, kept as <<type, name>>.
KField(type, name, offset, size) ==
  [type_and_name |-> <<type, name>>, offset |-> offset, size |-> size]

KCommon(offset, size) == KField("kFtraceUint32", "common", offset, size)

\* Declared field lists of the catalog.
FieldsA ==
  <<DeclField("prev_comm", 1, "kProtoString", "kFtraceFixedCString"),
    DeclField("next_pid", 2, "kProtoUint32", "kFtraceUint32")>>
FieldsD ==
  <<DeclField("prev_comm", 1, "kProtoString", "kFtraceFixedCString"),
    DeclField("next_pid", 2, "kProtoString", "kFtraceUint32")>>
FieldsX ==
  <<DeclField("next_pid", 2, "kProtoString", "kFtraceUint32"),
    DeclField("prev_comm", 1, "kProtoString", "kFtraceFixedCString")>>
FieldsS ==
  <<DeclField("next_pid", 2, "kProtoUint64", "kFtraceUint32")>>
FieldLists == {FieldsA, FieldsD, FieldsX, FieldsS}

\* (group, name) pairs the catalog may ask for, with the event's proto_field_id.
Keys == {<<"sched", "sched_switch">>, <<"power", "sched_switch">>, <<"ftrace", "print">>}
ProtoIdOf(key) ==
  IF key = <<"sched", "sched_switch">> THEN 5
  ELSE IF key = <<"power", "sched_switch">> THEN 6 ELSE 7

CatalogEvent(key, fields) ==
  [DefaultEvent EXCEPT !.group = key[1], !.name = key[2],
                       !.proto_field_id = ProtoIdOf(key), !.fields = fields]
FieldListsOf(key) ==
  IF key = <<"sched", "sched_switch">> THEN FieldLists
  ELSE IF key = <<"power", "sched_switch">> THEN {FieldsA, FieldsS}
  ELSE {FieldsA, FieldsX}
CatalogEvents == {CatalogEvent(k[1], k[2]) : k \in {x \in Keys \X FieldLists : x[2] \in FieldListsOf(x[1])}}

\* Kernel field blocks.
KFieldsA ==
  <<KField("kFtraceFixedCString", "prev_comm", 8, 16),
    KField("kFtraceUint32", "next_pid", 24, 4),
    KField("kFtraceUint32", "unrelated", 28, 4)>>
KFieldsB ==
  <<KField("kFtraceFixedCString", "prev_comm", 8, 16),
    KField("kFtraceUint32", "unrelated", 28, 4)>>
KFieldsO ==
  <<KField("kFtraceUint32", "next_pid", 65532, 8),
    KField("kFtraceFixedCString", "prev_comm", 8, 16)>>
KFieldsT ==
  <<KField("kFtraceFixedCString", "next_pid", 24, 4),
    KField("kFtraceUint32", "next_pid", 40, 4),
    KField("kFtraceFixedCString", "prev_comm", 8, 16)>>

\* What the kernel holds for one (group, name): the text may be empty, or
\* malformed (then the parser fails having filled ftrace_event in part).
Format(empty, wellformed, id, fields, common) ==
  [empty |-> empty, wellformed |-> wellformed,
   event |-> [id |-> id, fields |-> fields, common_fields |-> common]]

FmtEmpty == Format(TRUE, FALSE, 0, <<>>, <<>>)
FmtBad == Format(FALSE, FALSE, 3, KFieldsA, <<KCommon(0, 8)>>)
FmtA == Format(FALSE, TRUE, 1, KFieldsA, <<KCommon(0, 4), KCommon(4, 4)>>)
FmtB == Format(FALSE, TRUE, 2, KFieldsB, <<KCommon(0, 4), KCommon(4, 4)>>)
FmtT == Format(FALSE, TRUE, 1, KFieldsT, <<>>)
FmtO == Format(FALSE, TRUE, 2, KFieldsO, <<KCommon(0, 32)>>)
FmtZ == Format(FALSE, TRUE, 0, KFieldsA, <<KCommon(0, 16)>>)
Formats == {FmtEmpty, FmtBad, FmtA, FmtB, FmtT, FmtO, FmtZ}
FormatsOf(key) ==
  IF key = <<"sched", "sched_switch">> THEN Formats
  ELSE IF key = <<"power", "sched_switch">> THEN {FmtEmpty, FmtB, FmtT}
  ELSE {FmtEmpty, FmtBad, FmtA, FmtO}
Procfs == {pf \in [Keys -> Formats] : \A k \in Keys : pf[k] \in FormatsOf(k)}

---------------------------------------------------------------------------
\* Collaborators of Create.

\* FtraceProcfs::ReadEventFormat: the text of events/<group>/<name>/format.
ReadEventFormat(pf, group, name) == pf[<<group, name>>]

\* ParseFtraceEvent: false on malformed text, else fills *output.
ParseFtraceEvent(contents) == [ok |-> contents.wellformed, ftrace_event |-> contents.event]

\* GetNameFromTypeAndName: the identifier of a C declaration.
GetNameFromTypeAndName(type_and_name) == type_and_name[2]

\* SetTranslationStrategy: the closed set of supported conversions.
SetTranslationStrategy(ftrace, proto) ==
  IF ftrace = "kFtraceUint32" /\ proto = "kProtoUint32"
    THEN [ok |-> TRUE, strategy |-> "kUint32ToUint32"]
  ELSE IF ftrace = "kFtraceUint32" /\ proto = "kProtoUint64"
    THEN [ok |-> TRUE, strategy |-> "kUint32ToUint64"]
  ELSE IF ftrace = "kFtraceFixedCString" /\ proto = "kProtoString"
    THEN [ok |-> TRUE, strategy |-> "kFixedCStringToString"]
  ELSE [ok |-> FALSE, strategy |-> "kUnset"]

---------------------------------------------------------------------------
\* Create, lines 50-127.

\* std::max<uint16_t>(a, b): both arguments are converted to uint16_t first.
MaxU16(a, b) ==
  LET x == a % UINT16
      y == b % UINT16
  IN IF x < y THEN y ELSE x

\* Line 65: the event is skipped on empty text or on a parse failure.
UnavailableEmptyOnly(contents) == contents.empty
Unavailable(contents) == contents.empty \/ ~ParseFtraceEvent(contents).ok

\* Lines 73-76, 95: the first kernel field whose name equals the declared
\* name (0 when the inner loop ends without a match).
RECURSIVE ScanFrom(_, _, _)
ScanFrom(ffields, ftrace_name, m) ==
  IF m > Len(ffields) THEN 0
  ELSE IF GetNameFromTypeAndName(ffields[m].type_and_name) /= ftrace_name
    THEN ScanFrom(ffields, ftrace_name, m + 1)
  ELSE m
FirstMatch(ffields, ftrace_name) == ScanFrom(ffields, ftrace_name, 1)

\* Line 100: vector::erase moves the tail down; where the builds that do not
\* check iterators leave `field` is the same position.
EraseAt(fields, i) == [k \in 1..(Len(fields) - 1) |-> IF k < i THEN fields[k] ELSE fields[k + 1]]
AfterEraseSkips(i) == i + 1
AfterErase(i) == i

\* Lines 70-102: the while loop over event.fields. erased records whether
\* line 100 ran (after which `field` is an invalidated iterator).
RECURSIVE MergeFields(_, _, _, _, _)
MergeFields(fields, i, ffields, fields_end, erased) ==
  IF i > Len(fields)
    THEN [fields |-> fields, fields_end |-> fields_end, erased |-> erased]
  ELSE
    LET m == FirstMatch(ffields, fields[i].ftrace_name)
    IN IF m = 0
         THEN MergeFields(EraseAt(fields, i), AfterErase(i), ffields, fields_end, TRUE)
       ELSE
         LET f1 == [fields[i] EXCEPT !.ftrace_offset = ffields[m].offset,
                                     !.ftrace_size = ffields[m].size]
             fe == MaxU16(fields_end, f1.ftrace_offset + f1.ftrace_size)
             s == SetTranslationStrategy(f1.ftrace_type, f1.proto_field_type)
         IN IF s.ok
              THEN MergeFields([fields EXCEPT ![i] = [f1 EXCEPT !.strategy = s.strategy]],
                               i + 1, ffields, fe, erased)
            ELSE MergeFields(EraseAt(fields, i), AfterErase(i), ffields, fe, TRUE)

\* Lines 104-113: filled only while the local list is still empty.
RECURSIVE PushCommon(_, _, _, _)
PushCommon(cf, cfe, kcommon, k) ==
  IF k > Len(kcommon) THEN [common_fields |-> cf, common_fields_end |-> cfe]
  ELSE
    LET offset == kcommon[k].offset % UINT16
        size == kcommon[k].size % UINT16
    IN PushCommon(Append(cf, [DefaultField EXCEPT !.ftrace_offset = offset,
                                                  !.ftrace_size = size]),
                  MaxU16(cfe, offset + size), kcommon, k + 1)
CaptureCommon(cf, cfe, kcommon) ==
  IF cf = <<>> THEN PushCommon(cf, cfe, kcommon, 1)
  ELSE [common_fields |-> cf, common_fields_end |-> cfe]

\* Lines 56-115: one iteration of the loop over the catalog.
LoopBody(event, pf, cf, cfe) ==
  LET contents == ReadEventFormat(pf, event.group, event.name)
  IN IF Unavailable(contents)
       THEN [event |-> event, common_fields |-> cf, common_fields_end |-> cfe,
             erased |-> FALSE]
     ELSE
       LET ftrace_event == ParseFtraceEvent(contents).ftrace_event
           mf == MergeFields(event.fields, 1, ftrace_event.fields, 0, FALSE)
           cc == CaptureCommon(cf, cfe, ftrace_event.common_fields)
       IN [event |-> [event EXCEPT !.ftrace_event_id = ftrace_event.id,
                                   !.fields = mf.fields,
                                   !.size = MaxU16(mf.fields_end, cc.common_fields_end)],
           common_fields |-> cc.common_fields,
           common_fields_end |-> cc.common_fields_end,
           erased |-> mf.erased]

\* Lines 117-122: the remove_if predicate and the erase.
IsUnusable(event) == event.proto_field_id = 0 \/ event.ftrace_event_id = 0
RemoveUnusable(evs) == SelectSeq(evs, LAMBDA e : ~IsUnusable(e))

\* Lines 32-45.
RECURSIVE LargestId(_, _, _)
LargestId(evs, k, largest_id) ==
  IF k > Len(evs) THEN largest_id
  ELSE LargestId(evs, k + 1,
                 IF evs[k].ftrace_event_id > largest_id
                   THEN evs[k].ftrace_event_id ELSE largest_id)
PlaceEventIfFree(events_by_id, event) ==
  IF events_by_id[event.ftrace_event_id] = DefaultEvent
    THEN [events_by_id EXCEPT ![event.ftrace_event_id] = event]
  ELSE events_by_id
PlaceEvent(events_by_id, event) ==
  [events_by_id EXCEPT ![event.ftrace_event_id] = event]
RECURSIVE PlaceAll(_, _, _)
PlaceAll(events_by_id, evs, k) ==
  IF k > Len(evs) THEN events_by_id
  ELSE PlaceAll(PlaceEvent(events_by_id, evs[k]), evs, k + 1)
BuildEventsVector(evs) ==
  PlaceAll([i \in 0..LargestId(evs, 1, 0) |-> DefaultEvent], evs, 1)

\* Lines 134-136: the name index holds pointers into events_, kept here as
\* the index of the slot pointed to.
MapPut(map, key, val) ==
  [n \in (DOMAIN map) \cup {key} |-> IF n = key THEN val ELSE map[n]]
RecordNameByProtoId(map, event) == MapPut(map, event.name, event.proto_field_id)
RecordName(map, event) == MapPut(map, event.name, event.ftrace_event_id)
RECURSIVE IndexNames(_, _, _)
IndexNames(map, evs, k) ==
  IF k > Len(evs) THEN map
  ELSE IndexNames(RecordName(map, evs[k]), evs, k + 1)
EmptyMap == [n \in {} |-> 0]

\* Create and the constructor run to completion on inputs (cat, pf).
RECURSIVE RunLoop(_, _, _, _, _)
RunLoop(evs, i, pf, cf, cfe) ==
  IF i > Len(evs) THEN [events |-> evs, common_fields |-> cf, common_fields_end |-> cfe]
  ELSE
    LET r == LoopBody(evs[i], pf, cf, cfe)
    IN RunLoop([evs EXCEPT ![i] = r.event], i + 1, pf,
               r.common_fields, r.common_fields_end)
CreateTable(cat, pf) ==
  LET l == RunLoop(cat, 1, pf, <<>>, 0)
      kept == RemoveUnusable(l.events)
      by_id == BuildEventsVector(kept)
  IN [events |-> kept, events_ |-> by_id,
      largest_id_ |-> Cardinality(DOMAIN by_id) - 1,
      name_to_event_ |-> IndexNames(EmptyMap, kept, 1),
      common_fields |-> l.common_fields]

---------------------------------------------------------------------------
\* Create as a state machine: one step per iteration of the loop over the
\* catalog, then the remove_if, then the constructor.

NoFormats == [k \in Keys |-> FmtEmpty]

TableInit ==
  /\ catalog \in SeqsUpTo(CatalogEvents, MaxEvents)
  /\ procfs \in Procfs
  /\ events = catalog
  /\ idx = 1
  /\ common_fields = <<>>
  /\ common_fields_end = 0
  /\ events_ = EmptyMap
  /\ largest_id_ = 0
  /\ name_to_event_ = EmptyMap
  /\ pc = "loop"

TableIdle ==
  /\ catalog = <<>>
  /\ procfs = NoFormats
  /\ events = <<>>
  /\ idx = 1
  /\ common_fields = <<>>
  /\ common_fields_end = 0
  /\ events_ = EmptyMap
  /\ largest_id_ = 0
  /\ name_to_event_ = EmptyMap
  /\ pc = "off"

InLoop == pc = "loop" /\ idx <= Len(events)
CurrentContents == ReadEventFormat(procfs, events[idx].group, events[idx].name)

\* Lines 62-67: `continue`.
SkipEvent ==
  /\ InLoop
  /\ Unavailable(CurrentContents)
  /\ idx' = idx + 1
  /\ UNCHANGED <<catalog, procfs, events, common_fields, common_fields_end,
                 events_, largest_id_, name_to_event_, pc, fvars>>

\* Lines 68-114 in a build whose vector iterators are plain pointers.
MergeEvent ==
  /\ InLoop
  /\ ~Unavailable(CurrentContents)
  /\ LET r == LoopBody(events[idx], procfs, common_fields, common_fields_end)
     IN /\ events' = [events EXCEPT ![idx] = r.event]
        /\ common_fields' = r.common_fields
        /\ common_fields_end' = r.common_fields_end
  /\ idx' = idx + 1
  /\ UNCHANGED <<catalog, procfs, events_, largest_id_, name_to_event_, pc>>
  /\ UNCHANGED fvars

\* Lines 100, 71: `field` is used after erase invalidated it; a build with
\* checked iterators stops there, and no table is made.
TrapOnInvalidIterator ==
  /\ InLoop
  /\ ~Unavailable(CurrentContents)
  /\ LoopBody(events[idx], procfs, common_fields, common_fields_end).erased
  /\ pc' = "crashed"
  /\ UNCHANGED <<catalog, procfs, events, idx, common_fields, common_fields_end,
                 events_, largest_id_, name_to_event_>>
  /\ UNCHANGED fvars

\* Lines 117-122.
EraseUnusable ==
  /\ pc = "loop"
  /\ idx > Len(events)
  /\ events' = RemoveUnusable(events)
  /\ pc' = "construct"
  /\ UNCHANGED <<catalog, procfs, idx, common_fields, common_fields_end,
                 events_, largest_id_, name_to_event_>>
  /\ UNCHANGED fvars

\* Lines 124-137.
Construct ==
  /\ pc = "construct"
  /\ events_' = BuildEventsVector(events)
  /\ largest_id_' = Cardinality(DOMAIN BuildEventsVector(events)) - 1
  /\ name_to_event_' = IndexNames(EmptyMap, events, 1)
  /\ pc' = "done"
  /\ UNCHANGED <<catalog, procfs, events, idx, common_fields, common_fields_end>>
  /\ UNCHANGED fvars

---------------------------------------------------------------------------
\* FuzzSharedMemory: the service, the producer and the consumer.

\* A packet is a sequence of wire fields; the payload is arbitrary bytes, so
\* it may hold a well-formed test field, other fields, or bytes no parser
\* accepts.
TestField(v) == [tag |-> "test", val |-> v]
WireFields ==
  {TestField("end"), TestField("x"), [tag |-> "other", val |-> "y"],
   [tag |-> "malformed", val |-> ""]}
Payloads == SeqsUpTo(WireFields, MaxPayload)

\* TracePacket::Decode then test(): fields are merged left to right, a later
\* test field replaces an earlier one, parsing stops at bytes it rejects.
RECURSIVE ParseFrom(_, _, _)
ParseFrom(bytes, k, test) ==
  IF k > Len(bytes) THEN test
  ELSE IF bytes[k].tag = "malformed" THEN test
  ELSE ParseFrom(bytes, k + 1, IF bytes[k].tag = "test" THEN bytes[k].val ELSE test)
Decode(bytes) == [test |-> ParseFrom(bytes, 1, "")]

\* Line 75.
SentinelTestTypo == "End"
SentinelTest == "end"

\* Line 155.
IsSentinel(p) == Decode(p).test = "end"

FuzzInit ==
  /\ data \in Payloads
  /\ main_pc = "start_service"
  /\ prod_pc = "off"
  /\ consumer_enabled = FALSE
  /\ shm = <<>>
  /\ open_packets = 0
  /\ read_upto = 0
  /\ inflight = <<>>
  /\ decoded = <<>>
  /\ checkpoint = FALSE
  /\ ret = -1

FuzzIdle ==
  /\ data = <<>>
  /\ main_pc = "off"
  /\ prod_pc = "off"
  /\ consumer_enabled = FALSE
  /\ shm = <<>>
  /\ open_packets = 0
  /\ read_upto = 0
  /\ inflight = <<>>
  /\ decoded = <<>>
  /\ checkpoint = FALSE
  /\ ret = -1

\* Lines 132-133: Start returns once ServiceDelegate::Initialize has run.
StartService ==
  /\ main_pc = "start_service"
  /\ main_pc' = "start_producer"
  /\ UNCHANGED <<data, prod_pc, consumer_enabled, shm, open_packets, read_upto,
                 inflight, decoded, checkpoint, ret>>
  /\ UNCHANGED tvars

\* Lines 135-137, 100-104: the producer thread starts and connects.
StartProducer ==
  /\ main_pc = "start_producer"
  /\ main_pc' = "connect_consumer"
  /\ prod_pc' = "connecting"
  /\ UNCHANGED <<data, consumer_enabled, shm, open_packets, read_upto,
                 inflight, decoded, checkpoint, ret>>
  /\ UNCHANGED tvars

\* Lines 139-160: the consumer connects with its trace config.
ConnectConsumer ==
  /\ main_pc = "connect_consumer"
  /\ main_pc' = "run"
  /\ consumer_enabled' = TRUE
  /\ UNCHANGED <<data, prod_pc, shm, open_packets, read_upto,
                 inflight, decoded, checkpoint, ret>>
  /\ UNCHANGED tvars

\* Lines 55-60.
OnConnect ==
  /\ prod_pc = "connecting"
  /\ prod_pc' = "registered"
  /\ UNCHANGED <<data, main_pc, consumer_enabled, shm, open_packets, read_upto,
                 inflight, decoded, checkpoint, ret>>
  /\ UNCHANGED tvars

\* The service starts the registered data source named in the trace config,
\* which enters CreateDataSourceInstance (line 64).
CreateDataSourceInstance ==
  /\ prod_pc = "registered"
  /\ consumer_enabled
  /\ prod_pc' = "payload"
  /\ UNCHANGED <<data, main_pc, consumer_enabled, shm, open_packets, read_upto,
                 inflight, decoded, checkpoint, ret>>
  /\ UNCHANGED tvars

\* Lines 70-72.
WritePayload ==
  /\ prod_pc = "payload"
  /\ open_packets' = open_packets + 1
  /\ shm' = Append(shm, data)
  /\ prod_pc' = "sentinel"
  /\ UNCHANGED <<data, main_pc, consumer_enabled, read_upto,
                 inflight, decoded, checkpoint, ret>>
  /\ UNCHANGED tvars

\* Lines 74-76.
WriteSentinel ==
  /\ prod_pc = "sentinel"
  /\ open_packets' = open_packets + 1
  /\ shm' = Append(shm, <<TestField(SentinelTest)>>)
  /\ prod_pc' = "flush"
  /\ UNCHANGED <<data, main_pc, consumer_enabled, read_upto,
                 inflight, decoded, checkpoint, ret>>
  /\ UNCHANGED tvars

\* Line 81: a third packet is opened; its handle is a temporary, so the
\* packet is closed, empty, at the end of the statement.
OpenFlushPacket ==
  /\ prod_pc = "flush"
  /\ open_packets' = open_packets + 1
  /\ shm' = Append(shm, <<>>)
  /\ prod_pc' = "done"
  /\ UNCHANGED <<data, main_pc, consumer_enabled, read_upto,
                 inflight, decoded, checkpoint, ret>>
  /\ UNCHANGED tvars

\* The service sends the packets finalized since its last read, in write order.
SendPackets ==
  /\ consumer_enabled
  /\ read_upto < Len(shm)
  /\ inflight' = Append(inflight, SubSeq(shm, read_upto + 1, Len(shm)))
  /\ read_upto' = Len(shm)
  /\ UNCHANGED <<data, main_pc, prod_pc, consumer_enabled, shm, open_packets,
                 decoded, checkpoint, ret>>
  /\ UNCHANGED tvars

\* Lines 152-158: the consumer callback over one batch.
OnTraceData ==
  /\ main_pc = "run"
  /\ ~checkpoint
  /\ inflight /= <<>>
  /\ LET packets == Head(inflight)
     IN /\ decoded' = decoded \o [k \in 1..Len(packets) |-> Decode(packets[k]).test]
        /\ checkpoint' = (\E k \in 1..Len(packets) : IsSentinel(packets[k]))
  /\ inflight' = Tail(inflight)
  /\ UNCHANGED <<data, main_pc, prod_pc, consumer_enabled, shm, open_packets,
                 read_upto, ret>>
  /\ UNCHANGED tvars

\* Lines 161-162.
ReturnFromRun ==
  /\ main_pc = "run"
  /\ checkpoint
  /\ main_pc' = "returned"
  /\ ret' = 0
  /\ UNCHANGED <<data, prod_pc, consumer_enabled, shm, open_packets, read_upto,
                 inflight, decoded, checkpoint>>
  /\ UNCHANGED tvars

---------------------------------------------------------------------------
\* Specifications.

Init == TableInit /\ FuzzIdle
Next == SkipEvent \/ MergeEvent \/ TrapOnInvalidIterator \/ EraseUnusable \/ Construct
Spec == Init /\ [][Next]_vars

\* The same runs over kernel formats whose offset + size stay below 2^16.
InitInRange == Init /\ \A k \in Keys : procfs[k] /= FmtO
SpecInRange == InitInRange /\ [][Next]_vars

MainThread == StartService \/ StartProducer \/ ConnectConsumer \/ OnTraceData \/ ReturnFromRun
ProducerThread == OnConnect \/ WritePayload \/ WriteSentinel \/ OpenFlushPacket
ServiceThread == CreateDataSourceInstance \/ SendPackets
FuzzStart == FuzzInit /\ TableIdle
FuzzNext == MainThread \/ ProducerThread \/ ServiceThread
FuzzSpec ==
  /\ FuzzStart
  /\ [][FuzzNext]_vars
  /\ WF_vars(MainThread)
  /\ WF_vars(ProducerThread)
  /\ WF_vars(ServiceThread)

---------------------------------------------------------------------------
\* Properties of the table built by Create.

Done == pc = "done"

FormatOf(i) == procfs[<<catalog[i].group, catalog[i].name>>]
Parsed(i) == ~FormatOf(i).empty /\ FormatOf(i).wellformed
Indices(n) == [i \in 1..n |-> i]
ParsedIdx == SelectSeq(Indices(Len(catalog)), LAMBDA i : Parsed(i))
SurvivorIdx ==
  SelectSeq(Indices(Len(catalog)),
            LAMBDA i : Parsed(i) /\ FormatOf(i).event.id /= 0
                       /\ catalog[i].proto_field_id /= 0)
Slots == {s \in DOMAIN events_ : events_[s].ftrace_event_id /= 0}
Max(a, b) == IF a < b THEN b ELSE a
RECURSIVE Extent(_)
Extent(fields) ==
  IF fields = <<>> THEN 0
  ELSE Max(Head(fields).ftrace_offset + Head(fields).ftrace_size, Extent(Tail(fields)))
HasKernelField(kfields, n) ==
  \E m \in 1..Len(kfields) : kfields[m].type_and_name[2] = n
FirstKernelField(kfields, n) ==
  kfields[CHOOSE m \in 1..Len(kfields) :
            /\ kfields[m].type_and_name[2] = n
            /\ \A m2 \in 1..(m - 1) : kfields[m2].type_and_name[2] /= n]
Supported(ftype, ptype) == SetTranslationStrategy(ftype, ptype).ok

\* The name index and the id index agree, from the name side and from the
\* id side.
NameSideAgrees ==
  \A n \in DOMAIN name_to_event_ :
    LET s == name_to_event_[n]
    IN s \in DOMAIN events_ /\ events_[s].ftrace_event_id = s
IdSideAgrees(s) ==
  /\ events_[s].name \in DOMAIN name_to_event_
  /\ name_to_event_[events_[s].name] = s

\* A kernel format without its fields named n.
LacksField(fmt, n) ==
  [fmt EXCEPT !.event.fields = SelectSeq(@, LAMBDA kf : kf.type_and_name[2] /= n)]

\* Kernel common fields as the Field{offset, size} records Create stores.
AsCommonFields(kcommon) ==
  [k \in 1..Len(kcommon) |->
     [DefaultField EXCEPT !.ftrace_offset = kcommon[k].offset,
                          !.ftrace_size = kcommon[k].size]]

\* A sequence without its i-th element.
RemoveAt(seq, i) == [k \in 1..(Len(seq) - 1) |-> IF k < i THEN seq[k] ELSE seq[k + 1]]

\* The declared fields that have a kernel field of equal name and a supported
\* conversion, in declared order, filled from the first such kernel field.
ExpectedFields(e, kfields) ==
  LET keep == SelectSeq(e.fields,
                LAMBDA f : /\ HasKernelField(kfields, f.ftrace_name)
                           /\ Supported(f.ftrace_type, f.proto_field_type))
  IN [x \in 1..Len(keep) |->
        [keep[x] EXCEPT
           !.ftrace_offset = FirstKernelField(kfields, keep[x].ftrace_name).offset,
           !.ftrace_size = FirstKernelField(kfields, keep[x].ftrace_name).size,
           !.strategy = SetTranslationStrategy(keep[x].ftrace_type,
                                               keep[x].proto_field_type).strategy]]

\* The k-th surviving event is in the table as itself.
PresentAsItself(k) ==
  /\ events_[events[k].ftrace_event_id] = events[k]
  /\ events[k].name \in DOMAIN name_to_event_
  /\ events_[name_to_event_[events[k].name]].name = events[k].name

\* The last surviving event, in catalog order, with kernel id `id`.
LastWithId(id) ==
  CHOOSE k \in 1..Len(events) :
    /\ events[k].ftrace_event_id = id
    /\ \A k2 \in (k + 1)..Len(events) : events[k2].ftrace_event_id /= id

C2_SizeIsExtentOfKeptFields ==
  Done =>
    \A s \in Slots :
      events_[s].size = Max(Extent(common_fields), Extent(events_[s].fields))

\* C3 as stated: an event with a declared field that matches a kernel field
\* but has no supported conversion is built equal, in field list and size,
\* to the event built when the kernel format lacks that field.
C3_UnsupportedSameAsMissing ==
  Done =>
    \A k \in 1..Len(SurvivorIdx) :
      LET e == catalog[SurvivorIdx[k]]
          key == <<e.group, e.name>>
      IN \A j \in 1..Len(e.fields) :
           ( /\ HasKernelField(procfs[key].event.fields, e.fields[j].ftrace_name)
             /\ ~Supported(e.fields[j].ftrace_type, e.fields[j].proto_field_type) )
           => LET missing == CreateTable(catalog,
                               [procfs EXCEPT ![key] = LacksField(@, e.fields[j].ftrace_name)])
              IN /\ k <= Len(events) /\ k <= Len(missing.events)
                 /\ events[k].fields = missing.events[k].fields
                 /\ events[k].size = missing.events[k].size

\* C4 as stated: the table's common fields are those of the first catalog
\* event whose format was read and parsed, whatever that list holds.
C4_CommonFromFirstParsed ==
  Done =>
    IF ParsedIdx = <<>> THEN common_fields = <<>>
    ELSE common_fields = AsCommonFields(FormatOf(ParsedIdx[1]).event.common_fields)

\* C5: a catalog event whose format is empty or does not parse is left
\* untouched by the loop, is in neither index, and the table is the one
\* built from the catalog without that event.
C5_UnavailableEventDropped ==
  /\ pc = "loop" =>
       \A i \in 1..Len(catalog) : ~Parsed(i) => events[i] = catalog[i]
  /\ Done =>
       \A i \in 1..Len(catalog) :
         ~Parsed(i) =>
           /\ \A s \in DOMAIN events_ :
                ~(events_[s].group = catalog[i].group /\ events_[s].name = catalog[i].name)
           /\ \A n \in DOMAIN name_to_event_ :
                n = catalog[i].name => events_[name_to_event_[n]].group /= catalog[i].group
           /\ LET without == CreateTable(RemoveAt(catalog, i), procfs)
              IN /\ without.events = events
                 /\ without.events_ = events_
                 /\ without.largest_id_ = largest_id_
                 /\ without.name_to_event_ = name_to_event_
                 /\ without.common_fields = common_fields

\* An unavailable first event followed by a parsed one that keeps fields.
C5_Witness ==
  /\ Done
  /\ Len(catalog) = 2
  /\ ~Parsed(1)
  /\ Parsed(2)
  /\ Len(events) = 1
  /\ events[1].fields /= <<>>
  /\ common_fields /= <<>>

\* C6 as stated: a declared field that matches a kernel field is kept exactly
\* when the resolver supports (type the kernel reports for that field, target
\* type of the declared field).
C6_KeptByKernelReportedType ==
  Done =>
    \A k \in 1..Len(SurvivorIdx) :
      LET e == catalog[SurvivorIdx[k]]
          kfields == FormatOf(SurvivorIdx[k]).event.fields
      IN \A j \in 1..Len(e.fields) :
           HasKernelField(kfields, e.fields[j].ftrace_name) =>
             ( (\E x \in 1..Len(events[k].fields) :
                  events[k].fields[x].proto_field_id = e.fields[j].proto_field_id)
               <=> Supported(FirstKernelField(kfields, e.fields[j].ftrace_name).type_and_name[1],
                             e.fields[j].proto_field_type) )

\* C7: every catalog event that parsed with non-zero ids is kept, and its
\* field list is the declared fields, in declared order, that have a first
\* kernel field of equal name and a supported conversion, each once, with
\* that kernel field's offset and size and the resolved strategy.
C7_EventKeptFieldsFiltered ==
  Done =>
    /\ Len(events) = Len(SurvivorIdx)
    /\ \A k \in 1..Len(SurvivorIdx) :
         LET e == catalog[SurvivorIdx[k]]
             fmt == FormatOf(SurvivorIdx[k])
         IN /\ events[k].name = e.name
            /\ events[k].group = e.group
            /\ events[k].proto_field_id = e.proto_field_id
            /\ events[k].ftrace_event_id = fmt.event.id
            /\ events[k].fields = ExpectedFields(e, fmt.event.fields)

\* One event left with no field, and one whose first declared field was
\* erased and whose second was kept.
C7_Witness ==
  /\ Done
  /\ Len(events) = 2
  /\ events[1].fields = <<>>
  /\ catalog[SurvivorIdx[1]].fields /= <<>>
  /\ Len(events[2].fields) = 1
  /\ Len(catalog[SurvivorIdx[2]].fields) = 2
  /\ events[2].fields[1].proto_field_id = catalog[SurvivorIdx[2]].fields[2].proto_field_id

\* C8 as stated: every field of every event of the table ends, as an
\* unbounded sum offset + size, at or before the event's size.
C8_FieldsWithinSize ==
  Done =>
    \A s \in Slots :
      \A x \in 1..Len(events_[s].fields) :
        events_[s].fields[x].ftrace_offset + events_[s].fields[x].ftrace_size
          <= events_[s].size

\* C9 as stated: every surviving event is in the table as itself: the slot
\* at its ftrace_event_id holds it, and its name leads to an entry of that
\* name, whatever kernel ids the surviving events share.
C9_EverySurvivorPresentAllCatalogs ==
  Done => \A k \in 1..Len(events) : PresentAsItself(k)

\* C9 amended: the slot at a surviving event's ftrace_event_id holds the last
\* surviving event, in catalog order, with that id; when no two surviving
\* events have the same kernel id, every surviving event is in the table as
\* itself.
C9_SurvivorPresent ==
  Done =>
    /\ \A k \in 1..Len(events) :
         events_[events[k].ftrace_event_id] = events[LastWithId(events[k].ftrace_event_id)]
    /\ (\A k1, k2 \in 1..Len(events) :
          k1 /= k2 => events[k1].ftrace_event_id /= events[k2].ftrace_event_id)
       => \A k \in 1..Len(events) : PresentAsItself(k)

\* Two different surviving events with one kernel id; the later one is stored.
C9_Witness ==
  /\ Done
  /\ Len(events) = 2
  /\ events[1].ftrace_event_id = events[2].ftrace_event_id
  /\ events[1] /= events[2]
  /\ events_[events[1].ftrace_event_id] = events[2]

---------------------------------------------------------------------------
\* Properties of the fuzzer.

HasDecodedEnd == \E k \in 1..Len(decoded) : decoded[k] = "end"

\* The order in which the producer writes its packets.
ProducerOrder ==
  /\ Len(shm) >= 1 => shm[1] = data
  /\ Len(shm) >= 2 => shm[2] = <<TestField("end")>>
  /\ open_packets >= 2 => Len(shm) >= 1
  /\ open_packets >= 3 => Len(shm) >= 2
  /\ open_packets <= 3

====
